---- MODULE Spec2Model ----
(***************************************************************************)
(* mergebro: the driving loop of main(), the Director's evaluation cycle   *)
(* and the merge-method fallback of DefaultPullRequestMerger.              *)
(***************************************************************************)
EXTENDS Integers, Sequences, FiniteSets, TLC

\* ------------------------------------------------------------------ bounds
\* Number of Director.run() calls the driving loop is followed for.
MaxCycles == 2
\* Number of pushes to the pull request's branch made by other parties.
MaxPushes == 2
\* Largest number of approving reviews a pull request is seen with.
MaxApprovals == 2

\* ------------------------------------------------------------------ types
MergeMethod == {"Squash", "Merge", "Rebase"}

\* vec![MergeMethod::Squash, MergeMethod::Merge, MergeMethod::Rebase]
InitialMethods == <<"Squash", "Merge", "Rebase">>

\* impl Default for MergeConfig
MergeConfig_default == [default_method |-> "Merge"]

\* Verdicts of a Step on a pull request snapshot, or a collaborator error.
StepVerdict == {"passed", "waiting", "error"}

NoPullRequest == [sha |-> -1, title |-> "", body |-> <<>>]

\* Title and body (an Option: <<>> is None, <<b>> is Some(b)) a fetched pull
\* request may have.
Contents == {[title |-> "t1", body |-> <<>>], [title |-> "t2", body |-> <<"b2">>]}

\* identifier.repo, the repository of the pull request given on the command line.
TargetRepo == "target"

PullRequestReviewsConfig_default_no_approvals == [default |-> [approvals |-> 0], repos |-> <<>>]

\* impl Default for PullRequestReviewsConfig
PullRequestReviewsConfig_default == [default |-> [approvals |-> 1], repos |-> <<>>]

\* The `reviews` section of the configuration file: <<>> when it is absent.
ReviewsYaml ==
    { <<>>,
      <<[default |-> [approvals |-> 2], repos |-> <<>>]>>,
      <<[default |-> [approvals |-> 1],
         repos |-> <<[repo |-> "target", config |-> [approvals |-> 2]]>>]>>,
      <<[default |-> [approvals |-> 2],
         repos |-> <<[repo |-> "other", config |-> [approvals |-> 0]]>>]>> }

VARIABLES
    pc,              \* position of main()
    default_method,  \* config.merge.default_method
    dry_run,         \* options.dry_run
    ignore_reviews,  \* options.ignore_reviews
    allowed,         \* merge methods the repository allows (remote setting)
    reviews_yaml,    \* the `reviews` section of the configuration file
    reviews_step_new, \* CheckReviewsStep::new: not_called, ok, err
    merges,          \* merge requests that succeeded since the process started
    deviated,        \* a fetch or a step did not pass, or a merge request was
                     \* answered otherwise than method-not-allowed, in this run
    remote_sha,      \* head sha of the pull request's branch on GitHub
    merged,          \* the pull request has been merged on GitHub
    merge_methods,   \* DefaultPullRequestMerger.merge_methods
    steps,           \* the steps handed to Director::new
    cycles,          \* number of Director.run() calls so far
    pull_request,    \* the snapshot of the current cycle
    evaluated,       \* steps evaluated in the current cycle, with verdicts
    merger_invoked,  \* merger.merge() was called in the current cycle
    attempts,        \* merge requests submitted by the current merge() call
    merge_result,    \* result of merger.merge(): None, Success, Conflict, Err
    run_result       \* result of Director.run(): None, Waiting, Done, Err

vars == <<pc, default_method, dry_run, ignore_reviews, allowed, reviews_yaml,
          reviews_step_new, merges, deviated, remote_sha,
          merged, merge_methods, steps, cycles, pull_request, evaluated,
          merger_invoked, attempts, merge_result, run_result,
                   reviews_step_new, merges, deviated>>

\* ------------------------------------------------------- merge.rs, pure
\* Iterator::position: index of the first element equal to x (1-based).
position(s, x) == CHOOSE i \in 1..Len(s) : s[i] = x /\ \A j \in 1..(i - 1) : s[j] # x

\* slice::swap
swap(s, i, j) == [s EXCEPT ![i] = s[j], ![j] = s[i]]

build_merge_methods_overwrite(d) == [InitialMethods EXCEPT ![1] = d]

build_merge_methods_rotate(d) ==
    LET k == position(InitialMethods, d) - 1
    IN  [i \in 1..3 |-> InitialMethods[((i - 1 + k) % 3) + 1]]

build_merge_methods_no_swap(d) == InitialMethods

build_merge_methods(d) == swap(InitialMethods, position(InitialMethods, d), 1)

build_merge_message_always_body(pr, method) == pr.body

\* Squash carries the pull request's body, Merge and Rebase carry None.
build_merge_message(pr, method) == IF method = "Squash" THEN pr.body ELSE <<>>

\* The MergeRequestBody that merge_with_method submits.
merge_with_method(pr, method) ==
    [sha |-> pr.sha,
     commit_title |-> pr.title,
     commit_message |-> build_merge_message(pr, method),
     merge_method |-> method]

\* Error::method_not_allowed and Error::conflict of the client's error type.
method_not_allowed(e) == e = "method_not_allowed"

conflict(e) == e = "conflict"

merge_arm_ok_continues(r) ==
    IF r = "ok" THEN "continue"
    ELSE IF method_not_allowed(r) THEN "continue"
    ELSE IF conflict(r) THEN "return_conflict"
    ELSE "return_err"

merge_arm_conflict_continues(r) ==
    IF r = "ok" THEN "return_success"
    ELSE IF method_not_allowed(r) THEN "continue"
    ELSE IF conflict(r) THEN "continue"
    ELSE "return_err"

merge_arm_conflict_fatal(r) ==
    IF r = "ok" THEN "return_success"
    ELSE IF method_not_allowed(r) THEN "continue"
    ELSE "return_err"

merge_arm_not_allowed_stops(r) ==
    IF r = "ok" THEN "return_success"
    ELSE IF method_not_allowed(r) THEN "return_conflict"
    ELSE IF conflict(r) THEN "return_conflict"
    ELSE "return_err"

merge_arm_other_continues(r) ==
    IF r = "ok" THEN "return_success"
    ELSE IF method_not_allowed(r) THEN "continue"
    ELSE IF conflict(r) THEN "return_conflict"
    ELSE "continue"

merge_arm_not_allowed_succeeds(r) ==
    IF r = "ok" THEN "return_success"
    ELSE IF method_not_allowed(r) THEN "return_success"
    ELSE IF conflict(r) THEN "return_conflict"
    ELSE "return_err"

next_method_from_the_end(methods, done) == methods[Len(methods) - done]

\* for method in &self.merge_methods: the method after `done` iterations.
next_method(methods, done) == methods[done + 1]

merge_arm_not_allowed_fatal(r) ==
    IF r = "ok" THEN "return_success"
    ELSE IF conflict(r) THEN "return_conflict"
    ELSE "return_err"

\* The match of merge(): the arms are tried in the order they are written.
merge_arm(r) ==
    IF r = "ok" THEN "return_success"
    ELSE IF method_not_allowed(r) THEN "continue"
    ELSE IF conflict(r) THEN "return_conflict"
    ELSE "return_err"

\* ------------------------------------------------------- main.rs, pure
build_steps_keeps_reviews(ignore) ==
    <<"CheckCurrentStateStep", "CheckBehindMaster", "CheckBuildFailed", "CheckReviewsStep">>

build_steps(ignore) ==
    IF ignore
    THEN <<"CheckCurrentStateStep", "CheckBehindMaster", "CheckBuildFailed">>
    ELSE <<"CheckCurrentStateStep", "CheckBehindMaster", "CheckBuildFailed",
           "CheckReviewsStep">>

\* #[serde(default)] pub reviews: the default when the section is absent.
config_reviews(yaml) == IF yaml = <<>> THEN PullRequestReviewsConfig_default ELSE yaml[1]

after_reviews_step_new_ignores_err(result) == "loop"

\* build_steps: Ok pushes the step, Err logs and exits with status 1.
after_reviews_step_new(result) == IF result = "err" THEN "failed" ELSE "loop"

main_match_loops_on_done(r) ==
    IF r = "Waiting" THEN "sleeping" ELSE IF r = "Done" THEN "loop" ELSE "exited"

main_match_done_sleeps(r) == IF r = "Err" THEN "exited" ELSE "sleeping"

\* The match on director.run(): Waiting sleeps, Done and Err break.
main_match(r) == IF r = "Waiting" THEN "sleeping" ELSE "exited"

\* ------------------------------------------------------- Director, pure
after_step_ignores_waiting(verdict, last) ==
    IF verdict = "error" THEN "Err"
    ELSE IF last THEN "merge"
    ELSE "next"

\* What the Director does after a step's verdict.
after_step(verdict, last) ==
    IF verdict = "waiting" THEN "Waiting"
    ELSE IF verdict = "error" THEN "Err"
    ELSE IF last THEN "merge"
    ELSE "next"

\* The threshold of CheckReviewsStep for a repository: its override when the
\* configuration has one, the default threshold otherwise.
required_approvals(cfg, repo) ==
    LET overrides == {i \in 1..Len(cfg.repos) : cfg.repos[i].repo = repo}
    IN  IF overrides = {}
        THEN cfg.default.approvals
        ELSE cfg.repos[CHOOSE i \in overrides : \A j \in overrides : i <= j].config.approvals

\* The verdict of CheckReviewsStep on a pull request with `approvals` approvals.
check_reviews(cfg, repo, approvals) ==
    IF approvals >= required_approvals(cfg, repo) THEN "passed" ELSE "waiting"

\* How the Director maps the merger's result.
map_merge_result(r) ==
    IF r = "Success" THEN "Done"
    ELSE IF r = "Conflict" THEN "Waiting"
    ELSE "Err"

\* --------------------------------------------------------------- GitHub
\* What GitHub may answer to a merge request for `method` expecting `sha`.
Responses(method, sha) ==
    {"other"}
    \cup (IF sha # remote_sha THEN {"conflict"} ELSE {})
    \cup (IF method \notin allowed THEN {"method_not_allowed"} ELSE {})
    \cup (IF sha = remote_sha /\ method \in allowed /\ ~merged THEN {"ok"} ELSE {})

\* ----------------------------------------------------------------- Init
Init ==
    /\ pc = "init"
    /\ default_method \in MergeMethod
    /\ dry_run \in BOOLEAN
    /\ ignore_reviews \in BOOLEAN
    /\ allowed \in SUBSET MergeMethod
    /\ reviews_yaml \in ReviewsYaml
    /\ reviews_step_new = "not_called"
    /\ merges = 0
    /\ deviated = FALSE
    /\ remote_sha = 0
    /\ merged = FALSE
    /\ merge_methods = <<>>
    /\ steps = <<>>
    /\ cycles = 0
    /\ pull_request = NoPullRequest
    /\ evaluated = <<>>
    /\ merger_invoked = FALSE
    /\ attempts = <<>>
    /\ merge_result = "None"
    /\ run_result = "None"

\* -------------------------------------------------------------- actions
\* main(): the merger is chosen, build_steps runs, Director::new.
Build ==
    /\ pc = "init"
    /\ merge_methods' = IF dry_run THEN <<>> ELSE build_merge_methods(default_method)
    /\ \E result \in {"ok", "err"} :
          /\ reviews_step_new' = IF ignore_reviews THEN "not_called" ELSE result
          /\ pc' = after_reviews_step_new(reviews_step_new')
          /\ steps' = IF pc' = "loop" THEN build_steps(ignore_reviews) ELSE <<>>
    /\ UNCHANGED <<default_method, dry_run, ignore_reviews, allowed, reviews_yaml, remote_sha,
                   merged, cycles, pull_request, evaluated, merger_invoked,
                   attempts, merge_result, run_result, merges, deviated>>

\* loop { director.run() ... }: one more cycle starts.
CallRun ==
    /\ pc = "loop"
    /\ cycles < MaxCycles
    /\ cycles' = cycles + 1
    /\ pc' = "fetch"
    /\ pull_request' = NoPullRequest
    /\ evaluated' = <<>>
    /\ merger_invoked' = FALSE
    /\ attempts' = <<>>
    /\ merge_result' = "None"
    /\ run_result' = "None"
    /\ UNCHANGED <<default_method, dry_run, ignore_reviews, allowed, reviews_yaml, remote_sha,
                   merged, merge_methods, steps, reviews_step_new, merges, deviated>>

\* Director.run, step 1: fetch the pull request snapshot.
Fetch ==
    /\ pc = "fetch"
    /\ \/ \E content \in Contents :
             /\ pull_request' = [sha |-> remote_sha, title |-> content.title,
                                 body |-> content.body]
             /\ pc' = "checks"
             /\ UNCHANGED <<run_result, deviated>>
       \/ /\ pull_request' = pull_request
          /\ pc' = "returned"
          /\ run_result' = "Err"
          /\ deviated' = TRUE
    /\ UNCHANGED <<default_method, dry_run, ignore_reviews, allowed, reviews_yaml, remote_sha,
                   merged, merge_methods, steps, cycles, evaluated,
                   merger_invoked, attempts, merge_result, reviews_step_new, merges>>

\* Director.run, step 2: evaluate the next step on the snapshot.
EvalStep ==
    /\ pc = "checks"
    /\ Len(evaluated) < Len(steps)
    /\ \E verdict \in StepVerdict, approvals \in 0..MaxApprovals :
          LET i == Len(evaluated) + 1
              next == after_step(verdict, i = Len(steps))
          IN  /\ IF steps[i] = "CheckReviewsStep"
                 THEN verdict \in {"error",
                                   check_reviews(config_reviews(reviews_yaml), TargetRepo, approvals)}
                 ELSE approvals = 0
              /\ evaluated' = Append(evaluated,
                    [step |-> steps[i], verdict |-> verdict, approvals |-> approvals])
              /\ deviated' = (deviated \/ verdict # "passed")
              /\ pc' = CASE next = "next" -> "checks"
                         [] next = "merge" -> "merge"
                         [] OTHER -> "returned"
              /\ run_result' = IF next \in {"Waiting", "Err"} THEN next ELSE run_result
              /\ merger_invoked' = (next = "merge")
    /\ UNCHANGED <<default_method, dry_run, ignore_reviews, allowed, reviews_yaml, remote_sha,
                   merged, merge_methods, steps, cycles, pull_request,
                   attempts, merge_result, reviews_step_new, merges>>

\* DefaultPullRequestMerger::merge: one iteration of the loop over merge_methods.
MergeAttempt ==
    /\ pc = "merge"
    /\ ~dry_run
    /\ Len(attempts) < Len(merge_methods)
    /\ LET i == Len(attempts) + 1
           method == next_method(merge_methods, Len(attempts))
       IN  \E r \in Responses(method, pull_request.sha) :
              LET arm == merge_arm(r)
              IN  /\ attempts' = Append(attempts,
                        [method |-> method, sha |-> pull_request.sha,
                         response |-> r, stale |-> (pull_request.sha # remote_sha),
                         request |-> merge_with_method(pull_request, method)])
                  /\ merged' = (merged \/ r = "ok")
                  /\ merges' = merges + (IF r = "ok" THEN 1 ELSE 0)
                  /\ deviated' = (deviated \/ r # "method_not_allowed")
                  /\ merge_result' =
                        CASE arm = "return_success" -> "Success"
                          [] arm = "return_conflict" -> "Conflict"
                          [] arm = "return_err" -> "Err"
                          [] OTHER -> IF i = Len(merge_methods) THEN "Conflict" ELSE "None"
                  /\ pc' = IF merge_result' = "None" THEN "merge" ELSE "merge_done"
    /\ UNCHANGED <<default_method, dry_run, ignore_reviews, allowed, reviews_yaml, remote_sha,
                   merge_methods, steps, cycles, pull_request, evaluated,
                   merger_invoked, run_result, reviews_step_new>>

DummyMerge_reports_conflict ==
    /\ pc = "merge"
    /\ dry_run
    /\ merge_result' = "Conflict"
    /\ pc' = "merge_done"
    /\ UNCHANGED <<default_method, dry_run, ignore_reviews, allowed, reviews_yaml, remote_sha,
                   merged, merge_methods, steps, cycles, pull_request, evaluated,
                   merger_invoked, attempts, run_result,
                   reviews_step_new, merges, deviated>>

\* DummyPullRequestMerger::merge
DummyMerge ==
    /\ pc = "merge"
    /\ dry_run
    /\ merge_result' = "Success"
    /\ pc' = "merge_done"
    /\ UNCHANGED <<default_method, dry_run, ignore_reviews, allowed, reviews_yaml, remote_sha,
                   merged, merge_methods, steps, cycles, pull_request, evaluated,
                   merger_invoked, attempts, run_result,
                   reviews_step_new, merges, deviated>>

\* Director.run, step 4: the merger's result becomes the cycle's outcome.
DirectorReturn ==
    /\ pc = "merge_done"
    /\ run_result' = map_merge_result(merge_result)
    /\ pc' = "returned"
    /\ UNCHANGED <<default_method, dry_run, ignore_reviews, allowed, reviews_yaml, remote_sha,
                   merged, merge_methods, steps, cycles, pull_request, evaluated,
                   merger_invoked, attempts, merge_result,
                   reviews_step_new, merges, deviated>>

\* main(): the match on the result of director.run().
MainMatch ==
    /\ pc = "returned"
    /\ pc' = main_match(run_result)
    /\ UNCHANGED <<default_method, dry_run, ignore_reviews, allowed, reviews_yaml, remote_sha,
                   merged, merge_methods, steps, cycles, pull_request, evaluated,
                   merger_invoked, attempts, merge_result, run_result,
                   reviews_step_new, merges, deviated>>

\* main(): sleep(sleep_duration) is over, the loop goes round.
WakeUp ==
    /\ pc = "sleeping"
    /\ pc' = "loop"
    /\ UNCHANGED <<default_method, dry_run, ignore_reviews, allowed, reviews_yaml, remote_sha,
                   merged, merge_methods, steps, cycles, pull_request, evaluated,
                   merger_invoked, attempts, merge_result, run_result,
                   reviews_step_new, merges, deviated>>

\* Somebody pushes to the pull request's branch while the process runs.
Push ==
    /\ pc \notin {"init", "failed", "exited"}
    /\ ~merged
    /\ remote_sha < MaxPushes
    /\ remote_sha' = remote_sha + 1
    /\ UNCHANGED <<pc, default_method, dry_run, ignore_reviews, allowed, reviews_yaml,
                   merged, merge_methods, steps, cycles, pull_request, evaluated,
                   merger_invoked, attempts, merge_result, run_result,
                   reviews_step_new, merges, deviated>>

Next ==
    \/ Build
    \/ CallRun
    \/ Fetch
    \/ EvalStep
    \/ MergeAttempt
    \/ DummyMerge
    \/ DirectorReturn
    \/ MainMatch
    \/ WakeUp
    \/ Push

Spec == Init /\ [][Next]_vars

\* main() is a single task: its match is taken, its sleep ends and its loop
\* goes round. Nothing is assumed of GitHub or of the steps.
LiveSpec ==
    /\ Spec
    /\ WF_vars(MainMatch)
    /\ WF_vars(WakeUp)
    /\ WF_vars(CallRun)

\* Every call the process awaits returns: besides main's own steps, the
\* fetch, the steps' evaluation and the merge requests complete. Nothing is
\* assumed of what they answer.
FairSpec ==
    /\ LiveSpec
    /\ WF_vars(Fetch)
    /\ WF_vars(EvalStep)
    /\ WF_vars(MergeAttempt)
    /\ WF_vars(DummyMerge)
    /\ WF_vars(DirectorReturn)

\* --------------------------------------------------------------- claims
\* The DefaultPullRequestMerger has been constructed by main().
DefaultMergerBuilt == pc # "init" /\ ~dry_run

\* C1: for every default method d, build_merge_methods(d) has length 3, has
\* d first and contains each of Squash, Merge and Rebase exactly once.
C1_Permutation ==
    DefaultMergerBuilt =>
        /\ Len(merge_methods) = 3
        /\ merge_methods[1] = default_method
        /\ \A m \in MergeMethod :
              Cardinality({i \in 1..Len(merge_methods) : merge_methods[i] = m}) = 1

C1_Witness ==
    /\ DefaultMergerBuilt
    /\ default_method = "Rebase"
    /\ merge_methods[1] = "Rebase"

rotate(s, k) == [i \in 1..Len(s) |-> s[((i - 1 + k) % Len(s)) + 1]]

RelativeOrderKept(s, d) ==
    \A a, b \in MergeMethod \ {d} :
        position(InitialMethods, a) < position(InitialMethods, b)
            => position(s, a) < position(s, b)

\* C2, as stated: build_merge_methods(d) is [Squash, Merge, Rebase] rotated so
\* that d is first, and the two methods other than d keep the relative order
\* they have in [Squash, Merge, Rebase].
C2_RotatedKeepingOrder ==
    DefaultMergerBuilt =>
        /\ merge_methods = rotate(InitialMethods, position(InitialMethods, default_method) - 1)
        /\ RelativeOrderKept(merge_methods, default_method)

\* C2, amended: build_merge_methods(d) is [Squash, Merge, Rebase] with d and
\* the first element exchanged: [Squash, Merge, Rebase] for Squash,
\* [Merge, Squash, Rebase] for Merge and [Rebase, Merge, Squash] for Rebase.
C2_SwappedWithFirst ==
    DefaultMergerBuilt =>
        merge_methods = CASE default_method = "Squash" -> <<"Squash", "Merge", "Rebase">>
                          [] default_method = "Merge" -> <<"Merge", "Squash", "Rebase">>
                          [] default_method = "Rebase" -> <<"Rebase", "Merge", "Squash">>

C2_Witness ==
    /\ DefaultMergerBuilt
    /\ default_method = "Rebase"
    /\ merge_methods = <<"Rebase", "Merge", "Squash">>
    /\ ~RelativeOrderKept(merge_methods, default_method)

Answered(r) == {i \in 1..Len(attempts) : attempts[i].response = r}

\* C3: in one call of merge(), a merge request that succeeds is the last one
\* of the call and makes merge() return Success; a call has at most one
\* successful merge request.
C3_StopsAtFirstSuccess ==
    /\ \A i \in Answered("ok") :
          /\ i = Len(attempts)
          /\ merge_result = "Success"
          /\ pc # "merge"
    /\ Cardinality(Answered("ok")) <= 1

C3_Witness ==
    /\ Len(attempts) = 2
    /\ attempts[1].response = "method_not_allowed"
    /\ attempts[2].response = "ok"
    /\ merge_result = "Success"

\* C4: in one call of merge(), a merge request refused as a conflict is the
\* last one of the call and makes merge() return Ok(Conflict), not an error.
C4_ConflictReturnsAtOnce ==
    \A i \in Answered("conflict") :
        /\ i = Len(attempts)
        /\ merge_result = "Conflict"
        /\ pc # "merge"

C4_Witness ==
    /\ Len(attempts) = 1
    /\ attempts[1].response = "conflict"
    /\ Len(merge_methods) = 3
    /\ merge_result = "Conflict"
    /\ pc = "merge_done"

\* C5: in one call of merge(), after a merge request refused as not allowed
\* the next method of the list is the next one attempted; merge() returns
\* Conflict without a conflict answer only when all methods were refused, and
\* when all three are refused the result is Ok(Conflict).
C5_NotAllowedGoesOn ==
    /\ \A i \in Answered("method_not_allowed") :
          IF i < Len(attempts)
          THEN attempts[i + 1].method = merge_methods[i + 1]
          ELSE IF i < Len(merge_methods)
          THEN merge_result = "None" /\ pc = "merge"
          ELSE merge_result = "Conflict"
    /\ (merge_result = "Conflict" /\ Answered("conflict") = {}) =>
          /\ Len(attempts) = Len(merge_methods)
          /\ Answered("method_not_allowed") = 1..Len(attempts)

C5_Witness ==
    /\ Len(attempts) = 3
    /\ Answered("method_not_allowed") = {1, 2, 3}
    /\ merge_result = "Conflict"

\* C6: in one call of merge(), a merge request failing with an error that is
\* neither method-not-allowed nor conflict is the last one of the call and
\* makes merge() return Err, also after earlier methods were refused.
C6_OtherErrorIsFatal ==
    \A i \in Answered("other") :
        /\ i = Len(attempts)
        /\ merge_result = "Err"
        /\ pc # "merge"

C6_Witness ==
    /\ Len(attempts) = 3
    /\ attempts[1].response = "method_not_allowed"
    /\ attempts[2].response = "method_not_allowed"
    /\ attempts[3].response = "other"
    /\ merge_result = "Err"

\* C7: the driving loop sleeps after a run that returned Waiting and then
\* calls run() again (within the MaxCycles cycles followed); after a run that
\* returned Done or an error it ends and calls run() no more; it ends only
\* then; a run starts only when no run is in progress.
C7_DrivingLoop ==
    /\ (pc = "returned" /\ run_result = "Waiting" /\ cycles < MaxCycles) ~> (pc = "fetch")
    /\ (pc = "returned" /\ run_result \in {"Done", "Err"}) ~> (pc = "exited")
    /\ [][ /\ (pc = "returned" /\ run_result = "Waiting") => pc' \in {"returned", "sleeping"}
           /\ pc = "sleeping" => pc' \in {"sleeping", "loop"}
           /\ pc = "loop" => pc' \in {"loop", "fetch"}
           /\ (pc = "returned" /\ run_result \in {"Done", "Err"}) => pc' \in {"returned", "exited"}
           /\ pc = "exited" => (pc' = "exited" /\ cycles' = cycles)
           /\ pc' = "exited" => run_result' \in {"Done", "Err"}
           /\ cycles' # cycles =>
                 /\ cycles' = cycles + 1
                 /\ pc = "loop" /\ pc' = "fetch"
                 /\ run_result \in {"None", "Waiting"}
          ]_vars

C7_Witness ==
    /\ pc = "exited"
    /\ cycles = 2
    /\ run_result = "Done"

\* C8: in every cycle the steps are evaluated in the order of the list; a
\* step that reports not-satisfied is the last one evaluated, the cycle
\* returns Waiting, the merger is not invoked and no merge request is made.
C8_WaitingOnUnsatisfiedStep ==
    /\ \A i \in 1..Len(evaluated) : evaluated[i].step = steps[i]
    /\ \A i \in 1..Len(evaluated) :
          evaluated[i].verdict = "waiting" =>
              /\ i = Len(evaluated)
              /\ run_result = "Waiting"
              /\ ~merger_invoked
              /\ attempts = <<>>
              /\ merge_result = "None"

C8_Witness ==
    /\ Len(evaluated) = 2
    /\ Len(steps) = 4
    /\ evaluated[2].verdict = "waiting"
    /\ run_result = "Waiting"
    /\ pc = "sleeping"

AllSatisfied ==
    /\ Len(steps) > 0
    /\ Len(evaluated) = Len(steps)
    /\ \A i \in 1..Len(evaluated) : evaluated[i].verdict = "passed"

\* C9: when every step is satisfied the merger is invoked; Success gives
\* Done and Conflict gives Waiting; merge requests carrying a head sha that
\* is no longer the remote one end in Conflict unless a fatal error occurs;
\* every cycle evaluates a snapshot fetched in that cycle.
C9_MergeResultMapping ==
    [][ /\ AllSatisfied' => merger_invoked'
        /\ (pc = "merge_done" /\ pc' = "returned") =>
              /\ merge_result = "Success" => run_result' = "Done"
              /\ merge_result = "Conflict" => run_result' = "Waiting"
        /\ (/\ pc' = "merge_done"
            /\ ~dry_run
            /\ \A i \in 1..Len(attempts') :
                  attempts'[i].stale /\ attempts'[i].response # "other")
              => merge_result' = "Conflict"
        /\ (pc' = "checks" /\ pc # "checks") =>
              /\ pc = "fetch"
              /\ pull_request'.sha = remote_sha
        /\ \A i \in 1..Len(attempts') : attempts'[i].sha = pull_request'.sha
      ]_vars

C9_Witness ==
    /\ AllSatisfied
    /\ Len(attempts) = 1
    /\ attempts[1].stale
    /\ attempts[1].response = "conflict"
    /\ merge_result = "Conflict"
    /\ run_result = "Waiting"
    /\ pc = "sleeping"

C11_DryRunSubmitsNothing ==
    dry_run =>
        /\ attempts = <<>>
        /\ merges = 0
        /\ ~merged
        /\ merge_result \in {"None", "Success"}
        /\ merger_invoked => pc \in {"merge", "merge_done", "returned", "exited"}
        /\ (merger_invoked /\ pc # "merge") => merge_result = "Success"
        /\ (merger_invoked /\ pc \in {"returned", "exited"}) => run_result = "Done"
        /\ AllSatisfied => merger_invoked

C11_Witness ==
    /\ dry_run
    /\ AllSatisfied
    /\ merge_result = "Success"
    /\ run_result = "Done"
    /\ cycles = 2
    /\ pc = "exited"

\* The methods of the merge requests of the current merge() call, in order.
AttemptedMethods == [i \in 1..Len(attempts) |-> attempts[i].method]

AttemptedResponses == [i \in 1..Len(attempts) |-> attempts[i].response]

\* The default merger runs with the default method of the configuration in a
\* repository that allows only Squash, and merge() has returned without
\* having met a conflict or an unclassified error.
OnlySquashAllowedDone ==
    /\ ~dry_run
    /\ default_method = MergeConfig_default.default_method
    /\ allowed = {"Squash"}
    /\ merge_result # "None"
    /\ Answered("conflict") = {}
    /\ Answered("other") = {}

\* C12, as stated: with default method Merge and only Squash allowed, merge()
\* tries Merge (refused), then Rebase (refused), then Squash, which succeeds,
\* and the result is Success.
C12_MergeRebaseSquash ==
    OnlySquashAllowedDone =>
        /\ AttemptedMethods = <<"Merge", "Rebase", "Squash">>
        /\ AttemptedResponses = <<"method_not_allowed", "method_not_allowed", "ok">>
        /\ merge_result = "Success"

\* C12, amended: with default method Merge and only Squash allowed, merge()
\* tries Merge (refused) and then Squash, which succeeds; Rebase is not
\* attempted, and the result is Success.
C12_MergeThenSquash ==
    OnlySquashAllowedDone =>
        /\ AttemptedMethods = <<"Merge", "Squash">>
        /\ AttemptedResponses = <<"method_not_allowed", "ok">>
        /\ merge_result = "Success"

C12_Witness ==
    /\ OnlySquashAllowedDone
    /\ AttemptedMethods = <<"Merge", "Squash">>
    /\ merge_result = "Success"
    /\ run_result = "Done"

\* The threshold the configuration file gives the target repository: 1 when
\* it has no reviews section, else the override of the target repository when
\* there is one, else the default of the section.
ThresholdOfTarget ==
    IF reviews_yaml = <<>> THEN 1
    ELSE LET section == reviews_yaml[1]
             own == {i \in 1..Len(section.repos) : section.repos[i].repo = TargetRepo}
         IN  IF own # {}
             THEN section.repos[CHOOSE i \in own : TRUE].config.approvals
             ELSE section.default.approvals

\* C13: the review-approval check is satisfied exactly when the approving
\* reviews are at least the threshold of the target repository (its override,
\* else the default, which is 1 when not configured); when it is not
\* satisfied the cycle returns Waiting and the merger is not invoked.
C13_ReviewThreshold ==
    \A i \in 1..Len(evaluated) :
        (evaluated[i].step = "CheckReviewsStep" /\ evaluated[i].verdict # "error") =>
            /\ evaluated[i].verdict = "passed" <=> evaluated[i].approvals >= ThresholdOfTarget
            /\ evaluated[i].approvals < ThresholdOfTarget =>
                  /\ run_result = "Waiting"
                  /\ ~merger_invoked
                  /\ attempts = <<>>

C13_Witness ==
    /\ reviews_yaml # <<>>
    /\ reviews_yaml[1].repos # <<>>
    /\ reviews_yaml[1].repos[1] = [repo |-> TargetRepo, config |-> [approvals |-> 2]]
    /\ Len(evaluated) = 4
    /\ evaluated[4].step = "CheckReviewsStep"
    /\ evaluated[4].approvals = 1
    /\ evaluated[4].verdict = "waiting"
    /\ run_result = "Waiting"
    /\ pc = "sleeping"

\* C14: in one call of merge() the i-th merge request uses the i-th method of
\* the list built at construction, no method is used twice and at most three
\* requests are made; requests are only added one at a time, and the list
\* does not change once the merger is built.
C14_AttemptsFollowTheList ==
    [][ /\ \A i \in 1..Len(attempts') :
              /\ i <= Len(merge_methods')
              /\ attempts'[i].method = build_merge_methods(default_method)[i]
        /\ \A i, j \in 1..Len(attempts') :
              i # j => attempts'[i].method # attempts'[j].method
        /\ Len(attempts') <= 3
        /\ attempts' # attempts =>
              \/ attempts' = <<>>
              \/ /\ Len(attempts') = Len(attempts) + 1
                 /\ \A i \in 1..Len(attempts) : attempts'[i] = attempts[i]
        /\ pc # "init" => merge_methods' = merge_methods
      ]_vars

C14_Witness ==
    /\ cycles = 2
    /\ Len(attempts) = 3
    /\ default_method = "Rebase"
    /\ AttemptedMethods = <<"Rebase", "Merge", "Squash">>

\* C15: every merge request of one call of merge() carries the head sha and
\* the title of the snapshot passed to merge(); its commit message is the
\* snapshot's body (possibly None) for Squash and None for Merge and Rebase.
C15_RequestBody ==
    \A i \in 1..Len(attempts) :
        LET request == attempts[i].request
        IN  /\ request.sha = pull_request.sha
            /\ request.commit_title = pull_request.title
            /\ request.merge_method = attempts[i].method
            /\ request.commit_message =
                  (IF attempts[i].method = "Squash" THEN pull_request.body ELSE <<>>)

C15_Witness ==
    /\ pull_request.body = <<"b2">>
    /\ pull_request.title = "t2"
    /\ Len(attempts) = 3
    /\ \E i \in 1..3 :
          /\ attempts[i].method = "Squash"
          /\ attempts[i].request.commit_message = <<"b2">>
    /\ \E i \in 1..3 :
          /\ attempts[i].method = "Merge"
          /\ attempts[i].request.commit_message = <<>>
          /\ attempts[i].request.commit_title = "t2"

\* C16: the steps given to the Director are the current-state, the
\* behind-base-branch and the build-status step, in this order, followed by
\* the review step exactly when ignore_reviews is not set; when it is set the
\* review step is neither constructed nor evaluated.
C16_StepsList ==
    /\ pc \notin {"init", "failed"} =>
          /\ SubSeq(steps, 1, 3) = <<"CheckCurrentStateStep", "CheckBehindMaster", "CheckBuildFailed">>
          /\ Len(steps) = IF ignore_reviews THEN 3 ELSE 4
          /\ ~ignore_reviews => steps[4] = "CheckReviewsStep"
    /\ ignore_reviews =>
          /\ reviews_step_new = "not_called"
          /\ \A i \in 1..Len(evaluated) : evaluated[i].step # "CheckReviewsStep"
    /\ (~ignore_reviews /\ pc # "init") => reviews_step_new # "not_called"

C16_Witness ==
    /\ ignore_reviews
    /\ Len(steps) = 3
    /\ AllSatisfied
    /\ cycles = 2
    /\ pc = "merge"

\* C17: when the construction of the review step fails the process exits
\* before the Director exists: no cycle runs, no pull request is fetched, no
\* step is evaluated and no merge request is submitted.
C17_FailedConstructionExits ==
    /\ reviews_step_new = "err" => (pc = "failed" /\ ~ignore_reviews)
    /\ pc = "failed" =>
          /\ reviews_step_new = "err"
          /\ cycles = 0
          /\ steps = <<>>
          /\ pull_request = NoPullRequest
          /\ evaluated = <<>>
          /\ ~merger_invoked
          /\ attempts = <<>>
          /\ merges = 0
          /\ run_result = "None"

C17_Witness ==
    /\ pc = "failed"
    /\ ~ignore_reviews
    /\ reviews_step_new = "err"
    /\ ~dry_run

\* C18: over the whole run at most one merge request succeeds; once one has
\* succeeded, merge() has returned Success, the cycle returns Done, no further
\* merge request is submitted and no further cycle starts.
C18_AtMostOneMerge ==
    [][ /\ merges' <= 1
        /\ merges >= 1 =>
              /\ merges' = merges
              /\ attempts' = attempts
              /\ cycles' = cycles
        /\ merges' >= 1 =>
              /\ merge_result' = "Success"
              /\ pc' \in {"merge_done", "returned", "exited"}
              /\ pc' # "merge_done" => run_result' = "Done"
      ]_vars

C18_Witness ==
    /\ merges = 1
    /\ cycles = 2
    /\ run_result = "Done"
    /\ pc = "exited"

\* The default merger runs, the loop has started, and so far in this run
\* every fetch succeeded, every step was satisfied and every merge request was
\* refused as method-not-allowed.
OnlyRefusals == ~dry_run /\ ~deviated /\ pc \notin {"init", "failed"}

\* C19: as long as every step is satisfied and every merge request is refused
\* as not allowed, each call of merge() returns Conflict after three refused
\* requests, each cycle returns Waiting, the loop reaches neither Done nor an
\* error nor its end, and it goes on to the next cycle (for the MaxCycles
\* cycles followed).
C19_RefusedForever ==
    /\ [](OnlyRefusals =>
            /\ pc # "exited"
            /\ run_result \in {"None", "Waiting"}
            /\ merge_result \in {"None", "Conflict"}
            /\ Answered("method_not_allowed") = 1..Len(attempts)
            /\ merge_result = "Conflict" <=> Len(attempts) = 3
            /\ run_result = "Waiting" <=> pc \in {"returned", "sleeping", "loop"} /\ cycles > 0
            /\ run_result = "Waiting" => merge_result = "Conflict")
    /\ OnlyRefusals ~> (deviated \/ (cycles = MaxCycles /\ pc = "loop" /\ run_result = "Waiting"))

C19_Witness ==
    /\ OnlyRefusals
    /\ allowed = {}
    /\ cycles = 2
    /\ Len(attempts) = 3
    /\ merge_result = "Conflict"
    /\ run_result = "Waiting"
    /\ pc = "loop"

====
